---- MODULE Spec2Model ----
(***************************************************************************)
(* Model of the credit decision engine of credflow                         *)
(* (src/app/agents/tools.py, underwriting_tool).                           *)
(*                                                                         *)
(* Python ints are modelled by TLA+ integers.  Python floats are IEEE-754  *)
(* binary64 values and are modelled exactly: a float is a sign, a 53-bit   *)
(* mantissa and a binary exponent, and every float operation of the code   *)
(* (/, *, +, -, **, round, the .0f format) is the exact rational result    *)
(* rounded to 53 bits, ties to even.  Mantissas and the exact              *)
(* intermediate results are unbounded naturals, kept as little-endian      *)
(* sequences of 14-bit limbs.  ** is taken to be correctly rounded.        *)
(* Subnormals, infinities and NaN are outside the range of every value the *)
(* model computes.                                                         *)
(***************************************************************************)
EXTENDS Integers, Sequences, FiniteSets, TLC

(***************************************************************************)
(* Unbounded naturals (arithmetic of CPython ints and of float mantissas). *)
(***************************************************************************)
LIMB_BITS == 14
BASE == 16384

\* F(v), with v evaluated first and once
Let(v, F(_)) == CHOOSE res \in {F(w) : w \in {v}} : TRUE

RECURSIVE Pow2(_)
Pow2(k) == IF k = 0 THEN 1 ELSE 2 * Pow2(k - 1)

Abs(i) == IF i < 0 THEN -i ELSE i
Sgn(i) == IF i < 0 THEN -1 ELSE 1

Limb(a, i) == IF i >= 1 /\ i <= Len(a) THEN a[i] ELSE 0

\* the number of zero limbs on top of a
ZerosOnTop(a) ==
    CHOOSE d \in 0..Len(a) :
        /\ d = Len(a) \/ a[Len(a) - d] /= 0
        /\ \A j \in (Len(a) - d + 1)..Len(a) : a[j] = 0

\* a without the zero limbs on top
Trim(a) == SubSeq(a, 1, Len(a) - ZerosOnTop(a))

RECURSIVE BigFromNat(_)
BigFromNat(n) == IF n = 0 THEN <<>> ELSE <<n % BASE>> \o BigFromNat(n \div BASE)

RECURSIVE BigToNat(_)
BigToNat(a) == IF a = <<>> THEN 0 ELSE Head(a) + BASE * BigToNat(Tail(a))

BigIsOdd(a) == Len(a) > 0 /\ a[1] % 2 = 1

RECURSIVE CmpFrom(_, _, _)
CmpFrom(a, b, i) ==
    IF i = 0 THEN 0
    ELSE IF a[i] > b[i] THEN 1
    ELSE IF a[i] < b[i] THEN -1
    ELSE CmpFrom(a, b, i - 1)

\* -1, 0, 1 as a < b, a = b, a > b
BigCmp(a, b) ==
    IF Len(a) > Len(b) THEN 1
    ELSE IF Len(a) < Len(b) THEN -1
    ELSE CmpFrom(a, b, Len(a))

\* The carry into column k of the column sums t (each below 3 * BASE, so
\* that a carry is 0, 1 or 2): it depends on the carry into column k - 1
\* only where that column is within 2 of a multiple of BASE.
RECURSIVE CarryIn(_, _)
CarryIn(t, k) ==
    IF k = 1 THEN 0
    ELSE IF t[k - 1] % BASE < BASE - 2 THEN t[k - 1] \div BASE
    ELSE (t[k - 1] + CarryIn(t, k - 1)) \div BASE

\* the number whose column sums are t
Propagate(t) == Trim([k \in 1..Len(t) |-> (t[k] + CarryIn(t, k)) % BASE])

BigAdd(a, b) ==
    Propagate([k \in 1..((IF Len(a) > Len(b) THEN Len(a) ELSE Len(b)) + 1) |->
                 Limb(a, k) + Limb(b, k)])

\* the distance from column k down to the nearest column of t that is not
\* 0, or k if there is none
NonZeroBelow(t, k) ==
    CHOOSE d \in 1..k :
        /\ d = k \/ t[k - d] /= 0
        /\ \A j \in 1..(d - 1) : t[k - j] = 0

\* The borrow into column k of the column differences t: that of the
\* nearest column below that is not 0
BorrowFrom(t, k, d) == IF d < k /\ t[k - d] < 0 THEN 1 ELSE 0

BorrowIn(t, k) == BorrowFrom(t, k, NonZeroBelow(t, k))

BorrowOut(t) == Trim([k \in 1..Len(t) |-> (t[k] - BorrowIn(t, k) + BASE) % BASE])

\* a - b for a >= b
BigSub(a, b) == BorrowOut([k \in 1..Len(a) |-> a[k] - Limb(b, k)])

\* the column sums (below 3 * BASE) of the column products v (below BASE^2 * 4)
SplitColumns(v) ==
    [k \in 1..Len(v) |->
        (v[k] % BASE)
        + (IF k > 1 THEN (v[k - 1] \div BASE) % BASE ELSE 0)
        + (IF k > 2 THEN v[k - 2] \div (BASE * BASE) ELSE 0)]

\* a * b for b of at most 4 limbs
MulShort(a, b) ==
    IF Len(a) = 0 \/ Len(b) = 0 THEN <<>>
    ELSE Propagate(SplitColumns(
            [k \in 1..(Len(a) + 6) |->
                (Limb(a, k) * Limb(b, 1)) + (Limb(a, k - 1) * Limb(b, 2))
                + (Limb(a, k - 2) * Limb(b, 3)) + (Limb(a, k - 3) * Limb(b, 4))]))

\* a * d for a limb d < BASE
BigMulLimb(a, d) == IF d = 0 THEN <<>> ELSE MulShort(a, <<d>>)

\* a * BASE^k
ShiftLimbs(a, k) == IF Len(a) = 0 THEN <<>> ELSE [i \in 1..k |-> 0] \o a

\* limbs 4j-3 .. 4j of b
Chunk(b, j) == Trim(SubSeq(b, 4 * j - 3, IF 4 * j < Len(b) THEN 4 * j ELSE Len(b)))

\* a times the chunks lo..hi of b
RECURSIVE MulChunks(_, _, _, _)
MulChunks(a, b, lo, hi) ==
    IF lo = hi THEN ShiftLimbs(MulShort(a, Chunk(b, lo)), 4 * (lo - 1))
    ELSE Let(MulChunks(a, b, lo, (lo + hi) \div 2), LAMBDA low :
         Let(MulChunks(a, b, ((lo + hi) \div 2) + 1, hi), LAMBDA high :
         BigAdd(low, high)))

BigMul(a, b) ==
    IF Len(a) = 0 \/ Len(b) = 0 THEN <<>>
    ELSE MulChunks(a, b, 1, (Len(b) + 3) \div 4)

BigSquare(a) == BigMul(a, a)

\* a^n by squaring
RECURSIVE BigPow(_, _)
BigPow(a, n) ==
    IF n = 0 THEN <<1>>
    ELSE Let(BigPow(a, n \div 2), LAMBDA h :
         Let(BigSquare(h), LAMBDA h2 :
         IF n % 2 = 0 THEN h2 ELSE BigMul(h2, a)))

RECURSIVE LimbBitLen(_)
LimbBitLen(d) == IF d = 0 THEN 0 ELSE 1 + LimbBitLen(d \div 2)

BitLen(a) == IF Len(a) = 0 THEN 0 ELSE LIMB_BITS * (Len(a) - 1) + LimbBitLen(a[Len(a)])

\* a * 2^k
BigShl(a, k) == ShiftLimbs(BigMulLimb(a, Pow2(k % LIMB_BITS)), k \div LIMB_BITS)

\* floor(a / (BASE^q * p)) for p = 2^r, r < LIMB_BITS, and whether the
\* division left a remainder
ShrBy(a, q, p) ==
    [q |-> Trim([i \in 1..(IF q >= Len(a) THEN 0 ELSE Len(a) - q) |->
                   (a[q + i] \div p) + ((Limb(a, q + i + 1) % p) * (BASE \div p))]),
     sticky |-> (\E i \in 1..Len(a) : i <= q /\ a[i] /= 0)
                \/ (q < Len(a) /\ a[q + 1] % p /= 0)]

\* floor(a / 2^k), and whether a bit was shifted out
BigShr(a, k) == ShrBy(a, k \div LIMB_BITS, Pow2(k % LIMB_BITS))

\* Y * q <= R
Fits(Y, q, R) == q >= 0 /\ BigCmp(BigMulLimb(Y, q), R) <= 0

\* floor(R / Y) for R < Y * BASE and Y with a top limb of at least BASE / 2:
\* the quotient of the top limbs is at most 2 above it
QuotLimb(R, Y) ==
    LET est == (Limb(R, Len(Y) + 1) * BASE + Limb(R, Len(Y))) \div Y[Len(Y)]
        hat == IF est > BASE - 1 THEN BASE - 1 ELSE est
    IN  IF Fits(Y, hat, R) THEN hat
        ELSE IF Fits(Y, hat - 1, R) THEN hat - 1
        ELSE hat - 2

\* one more quotient limb d of R / Y below the quotient q
DivNext(q, R, Y, d) ==
    [q |-> <<d>> \o q, r |-> IF d = 0 THEN R ELSE BigSub(R, BigMulLimb(Y, d))]

DivStep(p, Y) ==
    Let(ShiftLimbs(p.r, 1), LAMBDA R :
    Let(QuotLimb(R, Y), LAMBDA d : DivNext(p.q, R, Y, d)))

\* q = floor(X * BASE^i / Y) and the remainder r, for X < Y * BASE
RECURSIVE LongDiv(_, _, _)
LongDiv(X, Y, i) ==
    IF i = 0 THEN Let(QuotLimb(X, Y), LAMBDA d : DivNext(<<>>, X, Y, d))
    ELSE Let(LongDiv(X, Y, i - 1), LAMBDA p : DivStep(p, Y))

(***************************************************************************)
(* IEEE-754 binary64.  A float is [s, m, e] and stands for s * m * 2^e     *)
(* with s in {1, -1} and 2^52 <= m < 2^53; a zero has m = <<>>.            *)
(***************************************************************************)
MANT_BITS == 53
MAX_EXP == 1024

FZero(s) == [s |-> s, m |-> <<>>, e |-> 0]
FIsZero(x) == Len(x.m) = 0

\* The float nearest to s * (N + f) * 2^E, ties to even, where 0 < f < 1 when
\* sticky and f = 0 otherwise (sticky only with more than 54 bits in N).
FRoundTo(s, N, sticky, E) ==
    LET L == BitLen(N)
    IN  IF L = 0 THEN FZero(s)
        ELSE IF L <= MANT_BITS
        THEN [s |-> s, m |-> BigShl(N, MANT_BITS - L), e |-> E - (MANT_BITS - L)]
        ELSE LET sh == L - MANT_BITS - 1
                 g  == BigShr(N, sh)
                 hi == BigShr(g.q, 1).q
                 up == BigIsOdd(g.q) /\ (sticky \/ g.sticky \/ BigIsOdd(hi))
                 m1 == IF up THEN BigAdd(hi, <<1>>) ELSE hi
             IN  IF BitLen(m1) > MANT_BITS
                 THEN [s |-> s, m |-> BigShr(m1, 1).q, e |-> E + sh + 2]
                 ELSE [s |-> s, m |-> m1, e |-> E + sh + 1]

DIV_LIMBS == 4

FRoundDiv(s, d, E) == FRoundTo(s, Trim(d.q), Len(d.r) > 0, E - DIV_LIMBS * LIMB_BITS)

\* The float nearest to s * (X / Y) * 2^E for X, Y of the same bit length
FDivScaled(s, X, Y, E) == Let(LongDiv(X, Y, DIV_LIMBS), LAMBDA d : FRoundDiv(s, d, E))

\* The float nearest to s * (N / D) * 2^E for naturals N, D > 0: N and D
\* are scaled to the same bit length, a multiple of LIMB_BITS, and the
\* quotient is taken to 4 limbs below the binary point
FDivBig(s, N, D, E) ==
    LET k  == BitLen(N) - BitLen(D)
        up == (LIMB_BITS - ((IF k > 0 THEN BitLen(N) ELSE BitLen(D)) % LIMB_BITS)) % LIMB_BITS
    IN  Let(BigShl(N, up + (IF k < 0 THEN -k ELSE 0)), LAMBDA X :
        Let(BigShl(D, up + (IF k > 0 THEN k ELSE 0)), LAMBDA Y :
        FDivScaled(s, X, Y, E + k)))

\* float(i) for an int i
FFromInt(i) == FRoundTo(Sgn(i), BigFromNat(Abs(i)), FALSE, 0)

\* a / b for ints a, b with b /= 0 (true division, correctly rounded);
\* also the value of the decimal literal a/b
IntTrueDiv(a, b) ==
    IF a = 0 THEN FZero(Sgn(b))
    ELSE FDivBig(Sgn(a) * Sgn(b), BigFromNat(Abs(a)), BigFromNat(Abs(b)), 0)

FNeg(x) == [x EXCEPT !.s = -x.s]

FMul(x, y) ==
    IF FIsZero(x) \/ FIsZero(y) THEN FZero(x.s * y.s)
    ELSE FRoundTo(x.s * y.s, BigMul(x.m, y.m), FALSE, x.e + y.e)

\* x / y for y /= 0
FDiv(x, y) ==
    IF FIsZero(x) THEN FZero(x.s * y.s)
    ELSE FDivBig(x.s * y.s, x.m, y.m, x.e - y.e)

\* the sign of x - y: -1, 0 or 1
FCmp(x, y) ==
    IF FIsZero(x) /\ FIsZero(y) THEN 0
    ELSE IF FIsZero(x) THEN -y.s
    ELSE IF FIsZero(y) THEN x.s
    ELSE IF x.s /= y.s THEN x.s
    ELSE LET e0 == IF x.e < y.e THEN x.e ELSE y.e
         IN  x.s * BigCmp(BigShl(x.m, x.e - e0), BigShl(y.m, y.e - e0))

FAdd(x, y) ==
    IF FIsZero(x) /\ FIsZero(y) THEN FZero(IF x.s = -1 /\ y.s = -1 THEN -1 ELSE 1)
    ELSE IF FIsZero(x) THEN y
    ELSE IF FIsZero(y) THEN x
    ELSE LET e0 == IF x.e < y.e THEN x.e ELSE y.e
             X  == BigShl(x.m, x.e - e0)
             Y  == BigShl(y.m, y.e - e0)
             c  == BigCmp(X, Y)
         IN  IF x.s = y.s THEN FRoundTo(x.s, BigAdd(X, Y), FALSE, e0)
             ELSE IF c = 0 THEN FZero(1)
             ELSE IF c > 0 THEN FRoundTo(x.s, BigSub(X, Y), FALSE, e0)
             ELSE FRoundTo(y.s, BigSub(Y, X), FALSE, e0)

FSub(x, y) == FAdd(x, FNeg(y))

\* |x| ** n is known to be 2 ** MAX_EXP or more without being computed:
\* |x| ** DOUBLING_STEPS >= 2 and n >= MAX_EXP * DOUBLING_STEPS
DOUBLING_STEPS == 64

PowOverflows(x, n) ==
    /\ n >= MAX_EXP * DOUBLING_STEPS
    /\ BitLen(BigPow(x.m, DOUBLING_STEPS)) + DOUBLING_STEPS * x.e >= 2

\* x ** n for a float x /= 0 and an int n, computed
FPowExact(x, n) ==
    LET s == IF x.s = -1 /\ n % 2 = 1 THEN -1 ELSE 1
    IN  Let(BigPow(x.m, Abs(n)), LAMBDA N :
        Let(IF n >= 0 THEN FRoundTo(s, N, FALSE, n * x.e)
            ELSE FDivBig(s, <<1>>, N, n * x.e), LAMBDA p :
        IF p.e + MANT_BITS > MAX_EXP THEN [error |-> "OverflowError"] ELSE p))

\* x ** n for a float x /= 0 and an int n: the float, or the error
\* OverflowError when the result is out of the range of binary64
FPow(x, n) ==
    IF PowOverflows(x, n) THEN [error |-> "OverflowError"]
    ELSE FPowExact(x, n)

\* round(x) for a float x: the nearest int, ties to even
FRoundInt(x) ==
    IF FIsZero(x) THEN 0
    ELSE IF x.e >= 0 THEN x.s * BigToNat(BigShl(x.m, x.e))
    ELSE LET g  == BigShr(x.m, -x.e - 1)
             hi == BigShr(g.q, 1).q
             up == BigIsOdd(g.q) /\ (g.sticky \/ BigIsOdd(hi))
         IN  x.s * (BigToNat(hi) + (IF up THEN 1 ELSE 0))

\* f"{x:.0f}": the sign and the digits of x rounded to no decimals
Format0f(x) == [neg |-> x.s = -1, int |-> Abs(FRoundInt(x))]

\* the float of the decimal literal num/den (the nearest float)
FLit(num, den) == IntTrueDiv(num, den)

(***************************************************************************)
(* Configuration (tools.py, lines 16-17) and the constants of              *)
(* underwriting_tool.                                                      *)
(***************************************************************************)
CREDIT_POLICY_MIN_SCORE == 700
CREDIT_POLICY_MAX_FOIR == FLit(50, 100)
MONTHS_PER_YEAR == 12
DEFAULT_TENURE == 12
ANNUAL_RATE == FLit(14, 100)
FAILSAFE_FACTOR == FLit(114, 100)

(***************************************************************************)
(* AgentToolResponse(...).dict(): status, message and data; data is None   *)
(* where the call passes none.  A message is the kind of its text and the  *)
(* values formatted into it.                                               *)
(***************************************************************************)
None == [none |-> TRUE]

AgentToolResponse(status, message, data) ==
    [status |-> status, message |-> message, data |-> data]

\* what a call of underwriting_tool does next: return a value, raise, or go on
Returns(value) == [kind |-> "return", value |-> value]
Raises(exc) == [kind |-> "raise", exc |-> exc]
GoesOn == [kind |-> "continue"]

\* the error a float operation raised, in place of its value
Error(exc) == [error |-> exc]
IsError(x) == "error" \in DOMAIN x

(***************************************************************************)
(* underwriting_tool, lines 83-93.  Policy 1: the bureau score.            *)
(***************************************************************************)
\* Policy 1 without the new-to-credit branch of lines 85-89
Policy1NoNewToCredit(bureau_score) ==
    IF bureau_score < CREDIT_POLICY_MIN_SCORE
    THEN Returns(AgentToolResponse("rejected",
                    [kind |-> "score_below_minimum", score |-> bureau_score,
                     minimum |-> CREDIT_POLICY_MIN_SCORE], None))
    ELSE GoesOn

\* Policy 1 with <= for the < of line 84
Policy1Inclusive(bureau_score) ==
    IF bureau_score <= CREDIT_POLICY_MIN_SCORE
    THEN IF bureau_score = 0
         THEN Returns(AgentToolResponse("needs_review",
                        [kind |-> "new_to_credit"], None))
         ELSE Returns(AgentToolResponse("rejected",
                        [kind |-> "score_below_minimum", score |-> bureau_score,
                         minimum |-> CREDIT_POLICY_MIN_SCORE], None))
    ELSE GoesOn

Policy1(bureau_score) ==
    IF bureau_score < CREDIT_POLICY_MIN_SCORE
    THEN IF bureau_score = 0
         THEN Returns(AgentToolResponse("needs_review",
                        [kind |-> "new_to_credit"], None))
         ELSE Returns(AgentToolResponse("rejected",
                        [kind |-> "score_below_minimum", score |-> bureau_score,
                         minimum |-> CREDIT_POLICY_MIN_SCORE], None))
    ELSE GoesOn

(***************************************************************************)
(* underwriting_tool, lines 104-131: the monthly income, the tenure and    *)
(* the installment.                                                        *)
(***************************************************************************)
MonthlyIncome(annual_income) == IntTrueDiv(annual_income, MONTHS_PER_YEAR)

InterestRateMonthly == FDiv(ANNUAL_RATE, FFromInt(MONTHS_PER_YEAR))

\* without line 116
NormalizeTenureMissing(requested_tenure_months) == requested_tenure_months

\* line 116 with a default of one month for the twelve
NormalizeTenureOneMonth(requested_tenure_months) ==
    IF requested_tenure_months = 0 THEN 1 ELSE requested_tenure_months

\* line 116
NormalizeTenure(requested_tenure_months) ==
    IF requested_tenure_months = 0 THEN DEFAULT_TENURE ELSE requested_tenure_months

\* line 131, the failsafe of the except clause: a float, not rounded, or
\* the ZeroDivisionError of its own division, which nothing catches
Failsafe(requested_amount, requested_tenure_months) ==
    IF requested_tenure_months = 0
    THEN [path |-> "failsafe", raised |-> "ZeroDivisionError"]
    ELSE [path |-> "failsafe",
          value |-> FDiv(FMul(FFromInt(requested_amount), FAILSAFE_FACTOR),
                         FFromInt(requested_tenure_months))]

\* line 130: the failsafe, with the exception the except clause caught
Except(exc, P, n) == Failsafe(P, n) @@ [caught |-> exc]

\* lines 125 and 129 with a == (1 + r)**n evaluated: the rounded quotient,
\* or the failsafe when ** or / raised
EmiFromPower(P, r, n, a) ==
    IF IsError(a) THEN Except(a.error, P, n)
    ELSE Let(FSub(a, FFromInt(1)), LAMBDA den :
         IF FIsZero(den) THEN Except("ZeroDivisionError", P, n)
         ELSE Let(FMul(FMul(FFromInt(P), r), a), LAMBDA num :
              [path |-> "formula", caught |-> "none",
               value |-> FRoundInt(FDiv(num, den))]))

\* lines 118-131 for r > 0 (line 127, r = 0, divides P by n)
EmiAtRate(P, r, n) ==
    IF FCmp(r, FZero(1)) > 0
    THEN Let(FPow(FAdd(FFromInt(1), r), n), LAMBDA a : EmiFromPower(P, r, n, a))
    ELSE IF n = 0 THEN Except("ZeroDivisionError", P, n)
    ELSE [path |-> "formula", caught |-> "none",
          value |-> FRoundInt(IntTrueDiv(P, n))]

\* new_emi for a principal P and a tenure n
NewEmi(P, n) == Let(InterestRateMonthly, LAMBDA r : EmiAtRate(P, r, n))

\* the locals after line 131: new_emi is assigned, or line 131 has raised
Projection(l) ==
    Let(NormalizeTenure(l.requested_tenure_months), LAMBDA n :
    Let(NewEmi(l.requested_amount, n), LAMBDA emi :
        [annual_income |-> l.annual_income,
         existing_emis |-> l.existing_emis,
         bureau_score |-> l.bureau_score,
         requested_amount |-> l.requested_amount,
         requested_tenure_months |-> n,
         monthly_income |-> MonthlyIncome(l.annual_income),
         path |-> emi.path,
         caught |-> emi.caught]
        @@ IF "raised" \in DOMAIN emi THEN [raised |-> emi.raised]
           ELSE [new_emi |-> emi.value]))

(***************************************************************************)
(* underwriting_tool, lines 134-152.  Policy 2: the FOIR.                  *)
(***************************************************************************)
\* line 134 without existing_emis
TotalEmisNewOnly(l) ==
    IF l.path = "formula" THEN FFromInt(l.new_emi) ELSE l.new_emi

\* line 134, as the float that line 137 divides
TotalEmis(l) ==
    IF l.path = "formula" THEN FFromInt(l.existing_emis + l.new_emi)
    ELSE FAdd(FFromInt(l.existing_emis), l.new_emi)

\* f"{x*100:.0f}"
Percent(x) == Format0f(FMul(x, FFromInt(100)))

\* lines 141-152 with the rejection of line 142 turned into a referral
DecideReferral(l, foir) ==
    IF FCmp(foir, CREDIT_POLICY_MAX_FOIR) > 0
    THEN Returns(AgentToolResponse("needs_review",
            [kind |-> "foir_above_limit", foir |-> Percent(foir),
             limit |-> Percent(CREDIT_POLICY_MAX_FOIR)], None))
    ELSE Returns(AgentToolResponse("approved",
            [kind |-> "approved", amount |-> l.requested_amount,
             foir |-> Percent(foir)],
            [approved_amount |-> l.requested_amount,
             tenure |-> l.requested_tenure_months,
             new_emi |-> l.new_emi]))

\* lines 141-152 with the data of line 151 on the rejection of line 142 too
DecideTermsAlways(l, foir) ==
    IF FCmp(foir, CREDIT_POLICY_MAX_FOIR) > 0
    THEN Returns(AgentToolResponse("rejected",
            [kind |-> "foir_above_limit", foir |-> Percent(foir),
             limit |-> Percent(CREDIT_POLICY_MAX_FOIR)],
            [approved_amount |-> l.requested_amount,
             tenure |-> l.requested_tenure_months,
             new_emi |-> l.new_emi]))
    ELSE Returns(AgentToolResponse("approved",
            [kind |-> "approved", amount |-> l.requested_amount,
             foir |-> Percent(foir)],
            [approved_amount |-> l.requested_amount,
             tenure |-> l.requested_tenure_months,
             new_emi |-> l.new_emi]))

\* lines 141-152 with >= for the > of line 141
DecideExclusive(l, foir) ==
    IF FCmp(foir, CREDIT_POLICY_MAX_FOIR) >= 0
    THEN Returns(AgentToolResponse("rejected",
            [kind |-> "foir_above_limit", foir |-> Percent(foir),
             limit |-> Percent(CREDIT_POLICY_MAX_FOIR)], None))
    ELSE Returns(AgentToolResponse("approved",
            [kind |-> "approved", amount |-> l.requested_amount,
             foir |-> Percent(foir)],
            [approved_amount |-> l.requested_amount,
             tenure |-> l.requested_tenure_months,
             new_emi |-> l.new_emi]))

\* lines 141-152 for the foir of line 137
Decide(l, foir) ==
    IF FCmp(foir, CREDIT_POLICY_MAX_FOIR) > 0
    THEN Returns(AgentToolResponse("rejected",
            [kind |-> "foir_above_limit", foir |-> Percent(foir),
             limit |-> Percent(CREDIT_POLICY_MAX_FOIR)], None))
    ELSE Returns(AgentToolResponse("approved",
            [kind |-> "approved", amount |-> l.requested_amount,
             foir |-> Percent(foir)],
            [approved_amount |-> l.requested_amount,
             tenure |-> l.requested_tenure_months,
             new_emi |-> l.new_emi]))

\* the foir of line 137, or the error of its division
Foir(l) ==
    IF FIsZero(l.monthly_income) THEN Error("ZeroDivisionError")
    ELSE FDiv(TotalEmis(l), l.monthly_income)

Policy2(l) ==
    Let(Foir(l), LAMBDA foir :
        IF IsError(foir) THEN Raises(foir.error)
        ELSE Decide(l, foir))

\* what a call with the arguments l returns or raises
underwriting_tool(l) ==
    IF Policy1(l.bureau_score).kind = "return" THEN Policy1(l.bureau_score)
    ELSE Let(Projection(l), LAMBDA after :
         IF "raised" \in DOMAIN after THEN Raises(after.raised)
         ELSE Policy2(after))

(***************************************************************************)
(* The calls of underwriting_tool.  The tool keeps nothing between calls:  *)
(* a call starts from its five arguments, runs the score gate, the         *)
(* projection and the ratio gate in the order of the code, and returns or  *)
(* raises.                                                                 *)
(***************************************************************************)
\* scores and amounts stay within these distances of the values they probe
MaxScoreStep == 1
MaxAmountStep == 1

\* annual_income and existing_emis of the applicants
Profiles ==
    { [annual_income |-> 1200000, existing_emis |-> 10000],
      [annual_income |-> 300000, existing_emis |-> 20000],
      [annual_income |-> 7272, existing_emis |-> 0],
      [annual_income |-> 2160, existing_emis |-> 0],
      [annual_income |-> 31272, existing_emis |-> 1000],
      [annual_income |-> 0, existing_emis |-> 0],
      [annual_income |-> 0 - 1200000, existing_emis |-> 10000],
      [annual_income |-> 1200000, existing_emis |-> 0 - 1000] }

Scores ==
    ((CREDIT_POLICY_MIN_SCORE - MaxScoreStep) ..
        (CREDIT_POLICY_MIN_SCORE + MaxScoreStep))
    \cup {0 - 1, 0, 650, 750, 901}

Amounts ==
    UNION { a .. (a + MaxAmountStep) : a \in {300, 1000, 500000, 1000000} }
    \cup {0 - 500000}

Tenures == {0 - 12, 0, 1, 12, 36}

Applications ==
    { [annual_income |-> p.annual_income,
       existing_emis |-> p.existing_emis,
       bureau_score |-> s,
       requested_amount |-> a,
       requested_tenure_months |-> t] :
      p \in Profiles, s \in Scores, a \in Amounts, t \in Tenures }

VARIABLES
    pc,      \* where the call stands: idle, score_gate, projection, ratio_gate, done
    call,    \* the arguments as the caller passed them
    locals,  \* the local variables of the running call
    gates,   \* the policy gates the call has run, in order
    ret,     \* what the call returned or raised
    evaluated,  \* the calls that are over: their arguments and what they gave
    decision,   \* the underwriting result the caller holds
    sanction,   \* the call of sanction_letter_tool: pc, args, raised, ret
    verification, \* the call of verification_tool: pc, phone_number, customer,
                  \* looked_up (the directory was queried), ret
    GEMINI_API_KEY, \* master_agent.py, lines 21-27
    chat_sessions,  \* master_agent.py, line 97: session_id -> ChatSession
    started,        \* the ChatSession objects model.start_chat has made
    uuids,          \* the identifiers uuid.uuid4 has made
    requests,       \* the /chat requests: where each is, and its answer
    session_state   \* dashboard.py, lines 218-223: st.session_state

\* the variables of a call of underwriting_tool, and the others
frame == <<pc, call, locals, gates, ret>>
letterVars == <<decision, sanction>>
chatVars == <<GEMINI_API_KEY, chat_sessions, started, uuids, requests>>
collaborators == <<letterVars, verification, chatVars, session_state>>
environment == <<evaluated, collaborators>>

vars == <<frame, environment>>

Pending == [kind |-> "none"]

Init ==
    /\ pc = "idle"
    /\ call = None
    /\ locals = None
    /\ gates = <<>>
    /\ ret = Pending
    /\ evaluated = {}
    /\ decision = None
    /\ sanction = [pc |-> "idle", args |-> None, raised |-> "none", ret |-> Pending]
    /\ verification = [pc |-> "idle", phone_number |-> <<>>, customer |-> None,
                       looked_up |-> FALSE, ret |-> Pending]
    /\ GEMINI_API_KEY = [unloaded |-> TRUE]
    /\ chat_sessions = <<>>
    /\ started = 0
    /\ uuids = 0
    /\ requests = <<>>
    /\ session_state =
            [messages |-> <<>>, last_trace |-> None, agent_steps |-> <<>>,
             progress_stages |-> [verification |-> FALSE,
                                  underwriting |-> FALSE,
                                  sanction |-> FALSE]]

\* line 61 behind a cache of earlier evaluations keyed by the requested
\* amount and tenure alone: a hit evaluates the cached arguments
CallMemoised(application) ==
    LET hits == { e \in evaluated :
                    /\ e.application.requested_amount
                            = application.requested_amount
                    /\ e.application.requested_tenure_months
                            = application.requested_tenure_months }
    IN  /\ pc = "idle"
        /\ pc' = "score_gate"
        /\ call' = application
        /\ locals' = IF hits = {} THEN application
                      ELSE (CHOOSE e \in hits : TRUE).application
        /\ gates' = <<>>
        /\ ret' = Pending
        /\ UNCHANGED environment

\* line 61: a caller invokes the tool with an application
Call(application) ==
    /\ pc = "idle"
    /\ pc' = "score_gate"
    /\ call' = application
    /\ locals' = application
    /\ gates' = <<>>
    /\ ret' = Pending
    /\ UNCHANGED environment

\* lines 83-93
ScoreGate ==
    /\ pc = "score_gate"
    /\ gates' = Append(gates, "score")
    /\ IF Policy1(locals.bureau_score).kind = "return"
       THEN pc' = "done" /\ ret' = Policy1(locals.bureau_score)
       ELSE pc' = "projection" /\ ret' = ret
    /\ UNCHANGED <<call, locals>>
    /\ UNCHANGED environment

\* lines 104-131
Project ==
    /\ pc = "projection"
    /\ locals' = Projection(locals)
    /\ IF "raised" \in DOMAIN locals'
       THEN pc' = "done" /\ ret' = Raises(locals'.raised)
       ELSE pc' = "ratio_gate" /\ ret' = ret
    /\ UNCHANGED <<call, gates>>
    /\ UNCHANGED environment

\* lines 134-152
RatioGate ==
    /\ pc = "ratio_gate"
    /\ gates' = Append(gates, "ratio")
    /\ ret' = Policy2(locals)
    /\ pc' = "done"
    /\ UNCHANGED <<call, locals>>
    /\ UNCHANGED environment

\* the call is over: its frame is gone and the tool is ready for the next
Return ==
    /\ pc = "done"
    /\ pc' = "idle"
    /\ call' = None
    /\ locals' = None
    /\ gates' = <<>>
    /\ ret' = Pending
    /\ UNCHANGED environment

Next ==
    \/ \E application \in Applications : Call(application)
    \/ ScoreGate
    \/ Project
    \/ RatioGate
    \/ Return

Spec == Init /\ [][Next]_vars

(***************************************************************************)
(* What the properties below read off a state.                             *)
(***************************************************************************)
Done == pc = "done"
Returned == pc = "done" /\ ret.kind = "return"
Status == ret.value.status
Data == ret.value.data

\* line 129 or 131 has assigned new_emi in the running call
InstallmentComputed == "new_emi" \in DOMAIN locals

AtScoreGate == gates = <<"score">>
AtRatioGate == gates = <<"score", "ratio">>

\* the obligation ratio of the call as a fraction of integers:
\* (existing_emis + new_emi) / (annual_income / 12)
ExactRatio(l) ==
    [num |-> MONTHS_PER_YEAR * (l.existing_emis + l.new_emi),
     den |-> l.annual_income]

\* the limit 0.50 as a fraction
ExactLimit == [num |-> 50, den |-> 100]

\* the order of two fractions with non-zero denominators: -1, 0 or 1
FracCmp(x, y) ==
    LET d == (x.num * y.den - y.num * x.den) * Sgn(x.den) * Sgn(y.den)
    IN  IF d < 0 THEN -1 ELSE IF d > 0 THEN 1 ELSE 0

ScenarioA ==
    [annual_income |-> 1200000, existing_emis |-> 10000, bureau_score |-> 750,
     requested_amount |-> 500000, requested_tenure_months |-> 36]

(***************************************************************************)
(* C1.  A call with bureau_score = 0 returns needs_review whatever the     *)
(* other four arguments are; it never computes an installment and its      *)
(* result carries no data.                                                 *)
(***************************************************************************)
C1_ZeroScoreNeedsReview ==
    (pc # "idle" /\ call.bureau_score = 0) =>
        /\ ~InstallmentComputed
        /\ Done => /\ ret.kind = "return"
                   /\ Status = "needs_review"
                   /\ Data = None
                   /\ AtScoreGate

C1_Witness ==
    /\ Returned
    /\ call.bureau_score = 0
    /\ call.annual_income = 0
    /\ Status = "needs_review"

(***************************************************************************)
(* C2.  A bureau_score equal to the floor 700 passes the score gate and    *)
(* reaches the ratio gate; every score s with 0 < s < 700 (699 and 650     *)
(* among them) is rejected at the score gate whatever the other arguments  *)
(* are, with no installment computed and no data in the result.            *)
(***************************************************************************)
C2_ScoreFloor ==
    /\ (Done /\ call.bureau_score = 700) => AtRatioGate /\ InstallmentComputed
    /\ (pc # "idle" /\ 0 < call.bureau_score /\ call.bureau_score < 700) =>
            /\ ~InstallmentComputed
            /\ Done => /\ ret.kind = "return"
                       /\ Status = "rejected"
                       /\ Data = None
                       /\ AtScoreGate

C2_Witness ==
    /\ Done
    /\ call.bureau_score = 700
    /\ AtRatioGate
    /\ InstallmentComputed

(***************************************************************************)
(* C3.  For bureau_score >= 700 and annual_income > 0 the call returns     *)
(* approved exactly when (existing_emis + installment) / (annual_income /  *)
(* 12) <= 0.50 and rejected exactly when the ratio is above 0.50; a ratio  *)
(* of exactly 0.50 is approved, and so is scenario A.                      *)
(***************************************************************************)
C3_RatioGate ==
    /\ (Done /\ call.bureau_score >= 700 /\ call.annual_income > 0) =>
            /\ ret.kind = "return"
            /\ Status = "approved" <=> FracCmp(ExactRatio(locals), ExactLimit) <= 0
            /\ Status = "rejected" <=> FracCmp(ExactRatio(locals), ExactLimit) > 0
    /\ (Done /\ call = ScenarioA) => Returned /\ Status = "approved"

C3_Witness ==
    /\ Returned
    /\ call.bureau_score >= 700
    /\ call.annual_income > 0
    /\ FracCmp(ExactRatio(locals), ExactLimit) = 0
    /\ Status = "approved"

\* the obligation ratio of the call is exactly 0.50
AtLimit ==
    /\ InstallmentComputed
    /\ locals.annual_income # 0
    /\ FracCmp(ExactRatio(locals), ExactLimit) = 0

\* the outcome of the same application with one currency unit more
OneUnitMore ==
    underwriting_tool([call EXCEPT !.requested_amount = @ + 1])

\* the installment of the same application with one currency unit more
OneUnitMoreEmi ==
    NewEmi(call.requested_amount + 1, locals.requested_tenure_months).value

(***************************************************************************)
(* C4 as claimed.  An application whose obligation ratio is exactly 0.50   *)
(* is approved, and the same application with requested_amount one unit    *)
(* higher is rejected.                                                     *)
(***************************************************************************)
C4_OneUnitMoreRejected ==
    (Done /\ AtRatioGate /\ AtLimit) =>
        /\ Returned
        /\ Status = "approved"
        /\ OneUnitMore.kind = "return"
        /\ OneUnitMore.value.status = "rejected"

(***************************************************************************)
(* C4 as the code has it.  An application with annual_income > 0 whose     *)
(* obligation ratio is exactly 0.50 is approved; the same application with *)
(* requested_amount one unit higher is rejected exactly when its rounded   *)
(* installment is larger, and is approved, with an installment no larger   *)
(* than before, when rounding leaves the installment where it was.         *)
(***************************************************************************)
C4_OneUnitMoreRejectedIffInstallmentGrows ==
    (Done /\ AtRatioGate /\ AtLimit /\ call.annual_income > 0) =>
        /\ Returned
        /\ Status = "approved"
        /\ OneUnitMore.kind = "return"
        /\ OneUnitMore.value.status \in {"approved", "rejected"}
        /\ OneUnitMore.value.status = "rejected"
                <=> OneUnitMoreEmi > locals.new_emi
        /\ OneUnitMore.value.status = "approved"
                => OneUnitMore.value.data.new_emi <= locals.new_emi

C4_Witness ==
    /\ Returned
    /\ AtRatioGate
    /\ AtLimit
    /\ call.annual_income > 0
    /\ call.existing_emis > 0
    /\ Status = "approved"
    /\ OneUnitMoreEmi > locals.new_emi
    /\ OneUnitMore.value.status = "rejected"

(***************************************************************************)
(* C5.  A call with requested_tenure_months = 0 ends exactly as the call   *)
(* with requested_tenure_months = 12 and the same other four arguments:    *)
(* the same status, message and data, the tenure of the approved terms     *)
(* included.                                                               *)
(***************************************************************************)
C5_ZeroTenureIsTwelve ==
    (Done /\ call.requested_tenure_months = 0) =>
        ret = underwriting_tool([call EXCEPT !.requested_tenure_months = 12])

C5_Witness ==
    /\ Returned
    /\ call.requested_tenure_months = 0
    /\ Status = "approved"
    /\ Data.tenure = 12
    /\ ret = underwriting_tool([call EXCEPT !.requested_tenure_months = 12])

\* an application the specification calls malformed
Malformed(application) ==
    \/ application.requested_amount < 0
    \/ application.requested_tenure_months < 0
    \/ application.annual_income <= 0
    \/ application.existing_emis < 0
    \/ application.bureau_score \notin 0 .. 900

(***************************************************************************)
(* C6 as claimed.  A call with a malformed application (a negative amount, *)
(* tenure or existing obligation, an income that is not positive, a score  *)
(* outside 0..900) runs no policy gate and ends by raising a               *)
(* ValidationError; it never returns a decision.                           *)
(***************************************************************************)
C6_MalformedInputFailsValidation ==
    (pc # "idle" /\ Malformed(call)) =>
        /\ gates = <<>>
        /\ Done => ret.kind = "raise" /\ ret.exc = "ValidationError"

(***************************************************************************)
(* C7 as claimed.  Every approved result belongs to an application with    *)
(* annual_income > 0 and has an obligation ratio between 0 and 0.50.       *)
(***************************************************************************)
C7_ApprovedOnlyWithPositiveIncome ==
    (Returned /\ Status = "approved") =>
        /\ call.annual_income > 0
        /\ FracCmp(ExactRatio(locals), [num |-> 0, den |-> 1]) >= 0
        /\ FracCmp(ExactRatio(locals), ExactLimit) <= 0

\* the three outcomes of a decision
Outcomes == {"approved", "rejected", "needs_review"}

\* the gates in the order the code runs them
GateOrder == <<"score", "ratio">>

(***************************************************************************)
(* C8.  Every call that returns has exactly one status, one of approved,   *)
(* rejected and needs_review.  The gates run in the order score gate,      *)
(* ratio gate: needs_review is returned only at the score gate, approved   *)
(* only after both gates.  Once a call has its outcome no gate runs and    *)
(* the outcome stays as it is until the call is over.                      *)
(***************************************************************************)
C8_OutcomesAndGateOrder ==
    /\ [](/\ gates \in {SubSeq(GateOrder, 1, k) : k \in 0 .. Len(GateOrder)}
          /\ (ret.kind # "none") <=> Done
          /\ Done => gates # <<>>
          /\ Returned => /\ Status \in Outcomes
                         /\ Status = "needs_review" => AtScoreGate
                         /\ Status = "approved" => AtRatioGate
                         /\ AtScoreGate => Status # "approved")
    /\ [][ret.kind # "none" =>
             \/ ret' = ret /\ gates' = gates
             \/ pc' = "idle" /\ ret' = Pending]_vars

C8_Witness ==
    /\ Returned
    /\ Status = "rejected"
    /\ AtRatioGate

\* the tenure the code uses for a requested tenure
TenureUsed(requested_tenure_months) ==
    IF requested_tenure_months = 0 THEN 12 ELSE requested_tenure_months

(***************************************************************************)
(* C9.  A result carries the approved terms approved_amount, tenure and    *)
(* new_emi exactly when its status is approved, and the terms are the      *)
(* values of that evaluation: approved_amount is requested_amount, tenure  *)
(* is the tenure (12 for 0) the installment was computed for, and new_emi  *)
(* is the installment that went into the obligation ratio.                 *)
(***************************************************************************)
C9_ApprovedTerms ==
    Returned =>
        /\ (Data # None) <=> (Status = "approved")
        /\ Status = "approved" =>
            /\ DOMAIN Data = {"approved_amount", "tenure", "new_emi"}
            /\ Data.approved_amount = call.requested_amount
            /\ Data.approved_amount = locals.requested_amount
            /\ Data.tenure = TenureUsed(call.requested_tenure_months)
            /\ Data.tenure = locals.requested_tenure_months
            /\ Data.new_emi = locals.new_emi
            /\ Data.new_emi = NewEmi(Data.approved_amount, Data.tenure).value
            /\ FracCmp(ExactRatio([locals EXCEPT !.new_emi = Data.new_emi]),
                       ExactLimit) <= 0

C9_Witness ==
    /\ Returned
    /\ Status = "approved"
    /\ call.requested_tenure_months = 0
    /\ Data.tenure = 12
    /\ Data.new_emi = locals.new_emi

ScenarioD ==
    [annual_income |-> 300000, existing_emis |-> 20000, bureau_score |-> 750,
     requested_amount |-> 1000000, requested_tenure_months |-> 12]

(***************************************************************************)
(* C10 as claimed.  A result rejected at the ratio gate carries the        *)
(* computed installment and the obligation ratio, as an approved result    *)
(* does; scenario D is rejected at the ratio gate.  Stated for the         *)
(* applications that are not malformed.                                    *)
(***************************************************************************)
C10_RatioRejectionCarriesFigures ==
    /\ (Done /\ call = ScenarioD) =>
            Returned /\ Status = "rejected" /\ AtRatioGate
    /\ (Returned /\ AtRatioGate /\ Status = "rejected" /\ ~Malformed(call)) =>
            /\ "foir" \in DOMAIN ret.value.message
            /\ "new_emi" \in DOMAIN Data
            /\ Data.new_emi = locals.new_emi

(***************************************************************************)
(* Repeated calls of underwriting_tool.  The calls that are over are kept  *)
(* with what they gave, so that a call can be compared with the calls      *)
(* before it.                                                              *)
(***************************************************************************)
\* how many different evaluations are remembered
MaxEvaluations == 2

RepeatApplications ==
    { [annual_income |-> p.annual_income,
       existing_emis |-> p.existing_emis,
       bureau_score |-> s,
       requested_amount |-> 1000,
       requested_tenure_months |-> t] :
      p \in { [annual_income |-> 1200000, existing_emis |-> 10000],
              [annual_income |-> 2160, existing_emis |-> 500] },
      s \in {650, 750},
      t \in {0, 12} }

CallAgain(application) ==
    /\ Cardinality(evaluated) < MaxEvaluations
       \/ \E e \in evaluated : e.application = application
    /\ Call(application)

\* the call is over, as in Return, and is remembered
ReturnRecorded ==
    /\ pc = "done"
    /\ pc' = "idle"
    /\ call' = None
    /\ locals' = None
    /\ gates' = <<>>
    /\ ret' = Pending
    /\ evaluated' = evaluated \cup {[application |-> call, result |-> ret]}
    /\ UNCHANGED collaborators

NextRepeat ==
    \/ \E application \in RepeatApplications : CallAgain(application)
    \/ ScoreGate
    \/ Project
    \/ RatioGate
    \/ ReturnRecorded

SpecRepeat == Init /\ [][NextRepeat]_vars

(***************************************************************************)
(* C11.  Two calls with identical arguments give identical results,        *)
(* whatever calls were made before or between them: a call ends as the     *)
(* evaluation of its arguments alone does, and as every earlier call with  *)
(* the same arguments did.  Nothing of a call is left when it is over.     *)
(***************************************************************************)
C11_Deterministic ==
    /\ Done =>
        /\ ret = underwriting_tool(call)
        /\ \A e \in evaluated : e.application = call => e.result = ret
    /\ \A e1, e2 \in evaluated :
            e1.application = e2.application => e1.result = e2.result
    /\ pc = "idle" =>
            call = None /\ locals = None /\ gates = <<>> /\ ret = Pending

C11_Witness ==
    /\ Done
    /\ \E e \in evaluated : e.application = call /\ e.result = ret
    /\ \E e \in evaluated :
            /\ e.application # call
            /\ e.application.requested_tenure_months
                    = call.requested_tenure_months
            /\ e.result # ret

(***************************************************************************)
(* Calls with well-formed arguments, among them calls whose tenure is so   *)
(* long that (1 + r)**n of line 125 raises OverflowError and the except    *)
(* clause of lines 130-131 computes the installment.                       *)
(***************************************************************************)
LONG_TENURE == MAX_EXP * DOUBLING_STEPS

\* an application the specification calls well-formed
WellFormed(application) ==
    /\ application.bureau_score \in 0 .. 900
    /\ application.annual_income > 0
    /\ application.existing_emis >= 0
    /\ application.requested_amount > 0
    /\ application.requested_tenure_months >= 0

WellFormedApplications ==
    { [annual_income |-> p.annual_income,
       existing_emis |-> p.existing_emis,
       bureau_score |-> s,
       requested_amount |-> a,
       requested_tenure_months |-> t] :
      p \in { q \in Profiles : q.annual_income > 0 /\ q.existing_emis >= 0 },
      s \in { x \in Scores : x \in 0 .. 900 },
      a \in { x \in Amounts : x > 0 },
      t \in {0, 1, 12, LONG_TENURE} }

NextWellFormed ==
    \/ \E application \in WellFormedApplications : Call(application)
    \/ ScoreGate
    \/ Project
    \/ RatioGate
    \/ Return

SpecWellFormed == Init /\ [][NextWellFormed]_vars

\* the except clause of lines 130-131 computed the installment of the call
UsedFallback == InstallmentComputed /\ locals.path = "failsafe"

\* a response that says its installment is a degraded computation
Flagged(response) ==
    \/ "degraded" \in DOMAIN response
    \/ "degraded" \in DOMAIN response.message
    \/ response.message.kind = "degraded"
    \/ "degraded" \in DOMAIN response.data

(***************************************************************************)
(* C12 as claimed.  A call that computed its installment by the fallback   *)
(* principal * 1.14 / tenure returns a decision, and the decision carries  *)
(* a degraded-computation flag, in its message or in a field of its own,   *)
(* that a decision of the normal path does not carry.                      *)
(***************************************************************************)
C12_FallbackIsFlagged ==
    /\ (Done /\ UsedFallback) =>
            Returned /\ Status \in Outcomes /\ Flagged(ret.value)
    /\ (Returned /\ ~UsedFallback) => ~Flagged(ret.value)

(***************************************************************************)
(* C13.  A call with well-formed arguments (bureau_score in 0..900,        *)
(* annual_income > 0, existing_emis >= 0, requested_amount > 0,            *)
(* requested_tenure_months >= 0) never raises and ends by returning a      *)
(* decision; neither the installment formula nor the ratio divides by      *)
(* zero.  (Arguments within the range of the model.)                       *)
(***************************************************************************)
C13_WellFormedNeverRaises ==
    (pc # "idle" /\ WellFormed(call)) =>
        /\ ret.kind # "raise"
        /\ "raised" \notin DOMAIN locals
        /\ "caught" \in DOMAIN locals => locals.caught # "ZeroDivisionError"
        /\ "monthly_income" \in DOMAIN locals => ~FIsZero(locals.monthly_income)
        /\ Done => Returned /\ Status \in Outcomes

C13_Witness ==
    /\ Returned
    /\ WellFormed(call)
    /\ call.requested_tenure_months = 0
    /\ AtRatioGate
    /\ locals.requested_tenure_months = 12

(***************************************************************************)
(* sanction_letter_tool (tools.py, lines 157-233) after an underwriting    *)
(* decision.  The caller keeps the decision underwriting_tool returned and *)
(* passes its approved terms to sanction_letter_tool, whose PDF and        *)
(* storage steps each succeed or raise.                                    *)
(***************************************************************************)
LetterApplications ==
    { [annual_income |-> p.annual_income,
       existing_emis |-> p.existing_emis,
       bureau_score |-> s,
       requested_amount |-> a,
       requested_tenure_months |-> t] :
      p \in { [annual_income |-> 1200000, existing_emis |-> 10000],
              [annual_income |-> 2160, existing_emis |-> 0] },
      s \in {650, 750},
      a \in {300, 1000, 500000},
      t \in {1, 12} }

CustomerNames == {"Asha Rao", "Vikram Singh"}

\* lines 228-233: the except clause answers for the exception exc
SanctionFailureRaises(exc) == Raises(exc)

SanctionFailure(exc) ==
    Returns(AgentToolResponse("error",
                [kind |-> "sanction_internal_error", exception |-> exc], None))

\* lines 222-226
SanctionSuccess(args) ==
    Returns(AgentToolResponse("success", [kind |-> "sanction_uploaded"],
                [pdf_url |-> <<"sanction_letters", args.customer_name>>]))

\* the caller receives what underwriting_tool returned
Deliver ==
    /\ pc = "done"
    /\ ret.kind = "return"
    /\ decision' = ret.value
    /\ pc' = "idle"
    /\ call' = None
    /\ locals' = None
    /\ gates' = <<>>
    /\ ret' = Pending
    /\ UNCHANGED <<evaluated, sanction, verification, chatVars, session_state>>

CallForLetter(application) ==
    /\ sanction.pc = "idle"
    /\ Call(application)

\* line 157: the caller passes the approved terms of its decision
SanctionCall(customer_name) ==
    /\ pc = "idle"
    /\ sanction.pc = "idle"
    /\ decision # None
    /\ decision.status = "approved"
    /\ sanction' = [pc |-> "pdf",
                    args |-> [customer_name |-> customer_name,
                              approved_amount |-> decision.data.approved_amount,
                              tenure |-> decision.data.tenure,
                              new_emi |-> decision.data.new_emi],
                    raised |-> "none",
                    ret |-> Pending]
    /\ UNCHANGED <<frame, evaluated, decision, verification, chatVars, session_state>>

\* one step of the try block: it succeeds and the call goes on to next,
\* or it raises exc and lines 228-233 answer
SanctionStep(at, next, exc, ok) ==
    /\ sanction.pc = at
    /\ sanction' = IF ok THEN [sanction EXCEPT !.pc = next]
                   ELSE [sanction EXCEPT !.pc = "done", !.raised = exc,
                                         !.ret = SanctionFailure(exc)]
    /\ UNCHANGED <<frame, evaluated, decision, verification, chatVars, session_state>>

\* lines 174-207
SanctionPdf == \E ok \in BOOLEAN : SanctionStep("pdf", "upload", "PdfError", ok)

\* lines 210-214
SanctionUpload ==
    \E ok \in BOOLEAN : SanctionStep("upload", "publish", "UploadError", ok)

\* lines 217-226
SanctionPublish ==
    /\ sanction.pc = "publish"
    /\ \E ok \in BOOLEAN :
        sanction' = IF ok THEN [sanction EXCEPT !.pc = "done",
                                     !.ret = SanctionSuccess(sanction.args)]
                    ELSE [sanction EXCEPT !.pc = "done", !.raised = "PublishError",
                                          !.ret = SanctionFailure("PublishError")]
    /\ UNCHANGED <<frame, evaluated, decision, verification, chatVars, session_state>>

\* the caller receives what sanction_letter_tool returned or raised
SanctionReturn ==
    /\ sanction.pc = "done"
    /\ sanction' = [pc |-> "idle", args |-> None, raised |-> "none", ret |-> Pending]
    /\ UNCHANGED <<frame, evaluated, decision, verification, chatVars, session_state>>

NextLetter ==
    \/ \E application \in LetterApplications : CallForLetter(application)
    \/ ScoreGate
    \/ Project
    \/ RatioGate
    \/ Deliver
    \/ \E customer_name \in CustomerNames : SanctionCall(customer_name)
    \/ SanctionPdf
    \/ SanctionUpload
    \/ SanctionPublish
    \/ SanctionReturn

SpecLetter == Init /\ [][NextLetter]_vars

(***************************************************************************)
(* C14.  When PDF generation or upload raises in sanction_letter_tool      *)
(* after an approved decision, the tool returns status error with no data  *)
(* and does not raise; no step of sanction_letter_tool changes the         *)
(* decision the caller holds, which stays approved with its terms.         *)
(***************************************************************************)
C14_LetterFailureKeepsDecision ==
    /\ [](sanction.pc = "done" =>
            /\ sanction.ret.kind = "return"
            /\ (sanction.raised # "none" =>
                    /\ sanction.ret.value.status = "error"
                    /\ sanction.ret.value.data = None)
            /\ (sanction.raised = "none" =>
                    sanction.ret.value.status = "success"))
    /\ [](sanction.pc # "idle" =>
            /\ decision.status = "approved"
            /\ decision.data.approved_amount = sanction.args.approved_amount
            /\ decision.data.tenure = sanction.args.tenure
            /\ decision.data.new_emi = sanction.args.new_emi)
    /\ [][sanction' # sanction => decision' = decision]_vars

C14_Witness ==
    /\ sanction.pc = "done"
    /\ sanction.raised = "UploadError"
    /\ sanction.ret.kind = "return"
    /\ sanction.ret.value.status = "error"
    /\ decision.status = "approved"

(***************************************************************************)
(* verification_tool (tools.py, lines 21-56).  A phone number is the       *)
(* sequence of its characters.  str.isdigit() is true of a non-empty       *)
(* string whose characters are all digits, and Python's digits are the     *)
(* ASCII digits and the other characters of Unicode that are digits:       *)
(* U+0663 is ARABIC-INDIC DIGIT THREE, U+00B2 is SUPERSCRIPT TWO.          *)
(***************************************************************************)
PHONE_LENGTH == 10

AsciiDigits == {"9", "8"}
OtherDigits == {"U+0663", "U+00B2"}
NonDigits == {"a", "+"}
Characters == AsciiDigits \cup OtherDigits \cup NonDigits

\* strings of one character repeated, with at most one other character
PhoneNumbers ==
    { [i \in 1..n |-> IF i = k THEN d ELSE c] :
        n \in {0, 1, PHONE_LENGTH - 1, PHONE_LENGTH, PHONE_LENGTH + 1},
        k \in {1, PHONE_LENGTH - 1, PHONE_LENGTH},
        c \in Characters,
        d \in Characters }

isdigit(string) ==
    /\ Len(string) > 0
    /\ \A i \in 1..Len(string) : string[i] \in AsciiDigits \cup OtherDigits

\* line 32, without the test of the length
InvalidPhoneAnyLength(phone_number) ==
    \/ Len(phone_number) = 0
    \/ ~isdigit(phone_number)

\* line 32
InvalidPhone(phone_number) ==
    \/ Len(phone_number) = 0
    \/ Len(phone_number) # PHONE_LENGTH
    \/ ~isdigit(phone_number)

\* the customer directory: a verified customer, an unverified one, a
\* record under a number of nine digits, and nobody else
CustomerProfile(phone, full_name, kyc_verified) ==
    [phone_number |-> phone, full_name |-> full_name,
     kyc_verified |-> kyc_verified,
     annual_income |-> 1200000, existing_emis |-> 10000, bureau_score |-> 750]

get_customer_by_phone(phone_number) ==
    IF phone_number = [i \in 1..PHONE_LENGTH |-> "9"]
    THEN CustomerProfile(phone_number, "Asha Rao", TRUE)
    ELSE IF phone_number = [i \in 1..PHONE_LENGTH |-> "8"]
    THEN CustomerProfile(phone_number, "Vikram Singh", FALSE)
    ELSE IF phone_number = [i \in 1..PHONE_LENGTH - 1 |-> "9"]
    THEN CustomerProfile(phone_number, "Meera Nair", TRUE)
    ELSE None

\* line 21
VerifyCall(phone_number) ==
    /\ verification.pc = "idle"
    /\ verification' = [pc |-> "validate", phone_number |-> phone_number,
                        customer |-> None, looked_up |-> FALSE, ret |-> Pending]
    /\ UNCHANGED <<frame, evaluated, letterVars, chatVars, session_state>>

\* lines 32-36
VerifyValidate ==
    /\ verification.pc = "validate"
    /\ verification' =
        IF InvalidPhone(verification.phone_number)
        THEN [verification EXCEPT !.pc = "done",
                !.ret = Returns(AgentToolResponse("error",
                            [kind |-> "invalid_phone"], None))]
        ELSE [verification EXCEPT !.pc = "lookup"]
    /\ UNCHANGED <<frame, evaluated, letterVars, chatVars, session_state>>

\* line 38
VerifyLookup ==
    /\ verification.pc = "lookup"
    /\ verification' = [verification EXCEPT !.pc = "decide",
            !.customer = get_customer_by_phone(verification.phone_number),
            !.looked_up = TRUE]
    /\ UNCHANGED <<frame, evaluated, letterVars, chatVars, session_state>>

\* lines 40-56
VerifyDecide ==
    /\ verification.pc = "decide"
    /\ verification' = [verification EXCEPT !.pc = "done", !.ret =
            IF verification.customer = None
            THEN Returns(AgentToolResponse("error",
                    [kind |-> "no_profile",
                     phone_number |-> verification.phone_number], None))
            ELSE IF ~verification.customer.kyc_verified
            THEN Returns(AgentToolResponse("error",
                    [kind |-> "kyc_not_verified",
                     full_name |-> verification.customer.full_name], None))
            ELSE Returns(AgentToolResponse("success",
                    [kind |-> "verified",
                     full_name |-> verification.customer.full_name],
                    verification.customer))]
    /\ UNCHANGED <<frame, evaluated, letterVars, chatVars, session_state>>

VerifyReturn ==
    /\ verification.pc = "done"
    /\ verification' = [pc |-> "idle", phone_number |-> <<>>, customer |-> None,
                        looked_up |-> FALSE, ret |-> Pending]
    /\ UNCHANGED <<frame, evaluated, letterVars, chatVars, session_state>>

NextVerification ==
    \/ \E phone_number \in PhoneNumbers : VerifyCall(phone_number)
    \/ VerifyValidate
    \/ VerifyLookup
    \/ VerifyDecide
    \/ VerifyReturn

SpecVerification == Init /\ [][NextVerification]_vars

\* the phone number is exactly ten digits (digits as str.isdigit has them)
TenDigits(phone_number) ==
    /\ Len(phone_number) = PHONE_LENGTH
    /\ \A i \in 1..Len(phone_number) :
            phone_number[i] \in AsciiDigits \cup OtherDigits

MaxRequests == 3

SessionIds == {<<>>, <<"alice">>, <<"bob">>}

UserMessages == {<<"h", "i">>}

\* main.py, line 75
ERROR_MARK ==
    <<"E", "r", "r", "o", "r", ":">>

\* master_agent.py, line 128
MISSING_KEY_TEXT ==
    <<"E", "r", "r", "o", "r", ":", " ", "A", "g", "e", "n", "t", " ", "i",
      "s", " ", "n", "o", "t", " ", "c", "o", "n", "f", "i", "g", "u", "r",
      "e", "d", ".", " ", "M", "i", "s", "s", "i", "n", "g", " ", "A", "P",
      "I", " ", "K", "e", "y", ".">>

\* master_agent.py, line 179
INTERNAL_ERROR_PREFIX ==
    <<"A", "n", " ", "i", "n", "t", "e", "r", "n", "a", "l", " ", "e", "r",
      "r", "o", "r", " ", "o", "c", "c", "u", "r", "r", "e", "d", ":", " ">>

\* the texts of the exceptions of a turn: IndexError of candidates[0]
\* (line 150), and two errors of the service
INDEX_ERROR_TEXT ==
    <<"l", "i", "s", "t", " ", "i", "n", "d", "e", "x", " ", "o", "u", "t",
      " ", "o", "f", " ", "r", "a", "n", "g", "e">>

QUOTA_ERROR_TEXT ==
    <<"4", "2", "9", " ", "Q", "u", "o", "t", "a", " ", "e", "x", "c", "e",
      "e", "d", "e", "d">>

SERVICE_ERROR_TEXT ==
    <<"5", "0", "0", " ", "I", "n", "t", "e", "r", "n", "a", "l", " ", "E",
      "r", "r", "o", "r", ":", " ", "r", "e", "t", "r", "y">>

\* needle in haystack, of Python's str
Contains(haystack, needle) ==
    \E i \in 1..(Len(haystack) - Len(needle) + 1) :
        SubSeq(haystack, i, i + Len(needle) - 1) = needle

\* the names of the tools (master_agent.py, lines 81-85)
VERIFICATION_TOOL ==
    <<"v", "e", "r", "i", "f", "i", "c", "a", "t", "i", "o", "n", "_", "t",
      "o", "o", "l">>

UNDERWRITING_TOOL ==
    <<"u", "n", "d", "e", "r", "w", "r", "i", "t", "i", "n", "g", "_", "t",
      "o", "o", "l">>

SANCTION_LETTER_TOOL ==
    <<"s", "a", "n", "c", "t", "i", "o", "n", "_", "l", "e", "t", "t", "e",
      "r", "_", "t", "o", "o", "l">>

\* the parts of response.candidates[0].content
TextPart(text) == [kind |-> "text", text |-> text]

FunctionCallPart(name) == [kind |-> "function_call", name |-> name, text |-> <<>>]

FunctionResponsePart(name, response) ==
    [kind |-> "function_response", name |-> name, response |-> response,
     text |-> <<>>]

\* what send_message_async gives: a response with its candidates, or an
\* exception
Outcomes_send_message_async ==
    { [candidates |-> <<>>],
      [candidates |-> << <<TextPart(<<"o", "k">>)>> >>],
      [candidates |-> << <<FunctionCallPart(UNDERWRITING_TOOL),
                           FunctionResponsePart(UNDERWRITING_TOOL,
                                [status |-> "approved"]),
                           TextPart(<<"y", "e", "s">>)>> >>],
      [exception |-> QUOTA_ERROR_TEXT],
      [exception |-> SERVICE_ERROR_TEXT] }

\* master_agent.py, lines 150-169: one trace entry for one part
TraceEntry(part) ==
    IF part.kind = "function_call"
    THEN [role |-> "agent_thought", tool_call |-> [name |-> part.name]]
    ELSE IF part.kind = "function_response"
    THEN [role |-> "tool_response",
          tool_response |-> [name |-> part.name, response |-> part.response]]
    ELSE [role |-> "agent_response", message |-> part.text]

\* master_agent.py, lines 141-179, from the end of the await: what
\* run_conversation_turn returns
TurnResult(trace, outcome) ==
    IF "exception" \in DOMAIN outcome
    THEN [final_response |-> INTERNAL_ERROR_PREFIX \o outcome.exception,
          trace |-> trace, failed |-> TRUE]
    ELSE IF Len(outcome.candidates) = 0
    THEN [final_response |-> INTERNAL_ERROR_PREFIX \o INDEX_ERROR_TEXT,
          trace |-> trace, failed |-> TRUE]
    ELSE LET parts == outcome.candidates[1]
         IN  [final_response |-> parts[Len(parts)].text,
              trace |-> trace \o [i \in 1..Len(parts) |-> TraceEntry(parts[i])],
              failed |-> FALSE]

\* main.py, lines 76 and 87
HTTPException(status_code, detail) == [status |-> status_code, detail |-> detail]

\* main.py, lines 75-87: the answer of handle_chat; the HTTPException of
\* line 76 is caught at line 85 and raised again at line 87
Answer(session_id, final_response, trace) ==
    IF Contains(final_response, ERROR_MARK)
    THEN HTTPException(500, [prefix |-> "An internal server error occurred: ",
                             e |-> HTTPException(500, final_response)])
    ELSE [status |-> 200, session_id |-> session_id,
          agent_response |-> final_response, trace |-> trace]

\* master_agent.py, lines 99-107, with a new session at every call
get_chat_sessionAlwaysNew(sessions, session_id, fresh) ==
    [id \in DOMAIN sessions \cup {session_id} |->
        IF id = session_id THEN [object |-> fresh, history |-> <<>>]
        ELSE sessions[id]]

\* master_agent.py, lines 99-107: chat_sessions after the call
get_chat_session(sessions, session_id, fresh) ==
    IF session_id \notin DOMAIN sessions
    THEN [id \in DOMAIN sessions \cup {session_id} |->
            IF id = session_id THEN [object |-> fresh, history |-> <<>>]
            ELSE sessions[id]]
    ELSE sessions

\* master_agent.py, lines 21-27, at import
Configure(key) ==
    /\ "unloaded" \in DOMAIN GEMINI_API_KEY
    /\ GEMINI_API_KEY' = key
    /\ UNCHANGED <<chat_sessions, started, uuids, requests>>
    /\ UNCHANGED <<frame, evaluated, letterVars, verification, session_state>>

\* main.py, lines 63-72 and master_agent.py, lines 127-141: a request
\* arrives, and runs to the await of send_message_async or, without the
\* key, to its answer
Receive(given_id, user_message) ==
    /\ "unloaded" \notin DOMAIN GEMINI_API_KEY
    /\ Len(requests) < MaxRequests
    /\ LET session_id == IF given_id # <<>> THEN given_id
                         ELSE <<"uuid4", uuids + 1>>
           sessions == get_chat_session(chat_sessions, session_id, started + 1)
       IN  /\ uuids' = IF given_id # <<>> THEN uuids ELSE uuids + 1
           /\ IF GEMINI_API_KEY = None
              THEN /\ requests' = Append(requests,
                        [pc |-> "done", session_id |-> session_id,
                         user_message |-> user_message, chat |-> 0,
                         trace |-> <<>>, failed |-> TRUE,
                         http |-> Answer(session_id, MISSING_KEY_TEXT, <<>>)])
                   /\ UNCHANGED <<chat_sessions, started>>
              ELSE /\ chat_sessions' = sessions
                   /\ started' = IF sessions = chat_sessions THEN started
                                 ELSE started + 1
                   /\ requests' = Append(requests,
                        [pc |-> "sending", session_id |-> session_id,
                         user_message |-> user_message,
                         chat |-> sessions[session_id].object,
                         trace |-> <<[role |-> "user", message |-> user_message]>>,
                         failed |-> FALSE,
                         http |-> None])
    /\ UNCHANGED GEMINI_API_KEY
    /\ UNCHANGED <<frame, evaluated, letterVars, verification, session_state>>

\* master_agent.py, lines 141-179 and main.py, lines 75-87: the await of
\* send_message_async ends, and the request runs to its answer.  A turn
\* that succeeded is in the history of its ChatSession.
Complete(r, outcome) ==
    /\ r \in DOMAIN requests
    /\ requests[r].pc = "sending"
    /\ LET request == requests[r]
           result == TurnResult(request.trace, outcome)
       IN  /\ requests' = [requests EXCEPT ![r] =
                    [request EXCEPT !.pc = "done",
                        !.trace = result.trace,
                        !.failed = result.failed,
                        !.http = Answer(request.session_id,
                                        result.final_response, result.trace)]]
           /\ chat_sessions' =
                [id \in DOMAIN chat_sessions |->
                    IF /\ chat_sessions[id].object = request.chat
                       /\ "exception" \notin DOMAIN outcome
                    THEN [chat_sessions[id] EXCEPT
                            !.history = Append(@, request.user_message)]
                    ELSE chat_sessions[id]]
    /\ UNCHANGED <<GEMINI_API_KEY, started, uuids>>
    /\ UNCHANGED <<frame, evaluated, letterVars, verification, session_state>>

NextChat ==
    \/ \E key \in {None, [key |-> "AIza"]} : Configure(key)
    \/ \E given_id \in SessionIds, user_message \in UserMessages :
            Receive(given_id, user_message)
    \/ \E r \in 1..MaxRequests, outcome \in Outcomes_send_message_async :
            Complete(r, outcome)

SpecChat == Init /\ [][NextChat]_vars

(***************************************************************************)
(* C16.  Two /chat requests of one session never are both inside           *)
(* send_message_async on the same ChatSession: the second turn starts      *)
(* only when the first is over.                                            *)
(***************************************************************************)
C16_TurnsSerializedPerSession ==
    \A r1 \in DOMAIN requests, r2 \in DOMAIN requests :
        /\ r1 # r2
        /\ requests[r1].pc = "sending"
        /\ requests[r2].pc = "sending"
        => requests[r1].chat # requests[r2].chat

\* the requests that have called get_chat_session
Served == {r \in DOMAIN requests : requests[r].chat # 0}

(***************************************************************************)
(* C17.  chat_sessions holds exactly one ChatSession for each session_id   *)
(* get_chat_session was called with; the call of every request gave the    *)
(* session now held for its id, so a repeated call gives the session of    *)
(* the first call; two ids never share a session; and no step removes an   *)
(* entry or replaces its session.                                          *)
(***************************************************************************)
C17_OneSessionPerId ==
    /\ [](DOMAIN chat_sessions = {requests[r].session_id : r \in Served})
    /\ [](\A r \in Served :
            chat_sessions[requests[r].session_id].object = requests[r].chat)
    /\ [](\A a \in DOMAIN chat_sessions, b \in DOMAIN chat_sessions :
            a # b => chat_sessions[a].object # chat_sessions[b].object)
    /\ [][\A id \in DOMAIN chat_sessions :
            /\ id \in DOMAIN chat_sessions'
            /\ chat_sessions'[id].object = chat_sessions[id].object]_vars

C17_Witness ==
    /\ Len(requests) = 3
    /\ requests[1].chat # 0
    /\ requests[1].session_id = requests[2].session_id
    /\ requests[1].chat = requests[2].chat
    /\ requests[3].chat # 0
    /\ requests[3].chat # requests[1].chat
    /\ Cardinality(DOMAIN chat_sessions) = 2

(***************************************************************************)
(* C18.  A request whose turn failed inside run_conversation_turn (the API *)
(* key is missing, or sending the message or reading the response raised)  *)
(* is answered with HTTP 500, never with a ChatResponse.                   *)
(***************************************************************************)
C18_FailedTurnIs500 ==
    \A r \in DOMAIN requests :
        requests[r].pc = "done" /\ requests[r].failed
            => requests[r].http.status = 500

(***************************************************************************)
(* The dashboard (dashboard.py): parse_trace_to_steps (lines 235-338) and  *)
(* the chat turn that stores its result in st.session_state (lines         *)
(* 378-414).                                                               *)
(***************************************************************************)
MaxTurns == 3

Stages == {"verification", "underwriting", "sanction"}

\* lines 252, 268, 284 and 307, 310, 313: the substrings looked for
VERIFICATION ==
    <<"v", "e", "r", "i", "f", "i", "c", "a", "t", "i", "o", "n">>

UNDERWRITING ==
    <<"u", "n", "d", "e", "r", "w", "r", "i", "t", "i", "n", "g">>

SANCTION_LETTER ==
    <<"s", "a", "n", "c", "t", "i", "o", "n", "_", "l", "e", "t", "t", "e",
      "r">>

\* lines 306-315; "none" is the stage_key None
StageKey(tool_name) ==
    IF Contains(tool_name, VERIFICATION) THEN "verification"
    ELSE IF Contains(tool_name, UNDERWRITING) THEN "underwriting"
    ELSE IF Contains(tool_name, SANCTION_LETTER) THEN "sanction"
    ELSE "none"

\* lines 248-298: the steps of an agent_thought; the format ":," of lines
\* 273 and 280 raises ValueError for the default 'N/A' of a missing argument
ThoughtSteps(tool_call) ==
    LET stage_key == StageKey(tool_call.name)
    IN  IF stage_key = "none" THEN [steps |-> <<>>]
        ELSE IF /\ stage_key = "underwriting"
                /\ {"requested_amount", "annual_income", "existing_emis"}
                        \ DOMAIN tool_call.args # {}
        THEN [raised |-> "ValueError"]
        ELSE [steps |-> <<[type |-> "agent_action", agent |-> "Master Agent"],
                          [type |-> "agent_working", agent |-> stage_key]>>]

\* lines 240-336: the loop, from item i on
RECURSIVE ParseFrom(_, _, _, _)
ParseFrom(trace, i, steps, current_stage) ==
    IF i > Len(trace) THEN [steps |-> steps, current_stage |-> current_stage]
    ELSE LET item == trace[i]
         IN  IF item.role = "user"
             THEN ParseFrom(trace, i + 1,
                    Append(steps, [type |-> "user_input"]), current_stage)
             ELSE IF item.role = "agent_thought"
             THEN LET thought == ThoughtSteps(item.tool_call)
                  IN  IF "raised" \in DOMAIN thought THEN thought
                      ELSE ParseFrom(trace, i + 1, steps \o thought.steps,
                                     current_stage)
             ELSE IF item.role = "tool_response"
             THEN LET stage_key == StageKey(item.tool_response.name)
                      status == item.tool_response.response.status
                  IN  ParseFrom(trace, i + 1,
                        Append(steps, [type |-> "agent_result",
                                       agent |-> stage_key, status |-> status]),
                        IF stage_key # "none" /\ status = "success"
                        THEN [current_stage EXCEPT ![stage_key] = TRUE]
                        ELSE current_stage)
             ELSE IF item.role = "agent_response"
             THEN ParseFrom(trace, i + 1,
                    Append(steps, [type |-> "final_response"]), current_stage)
             ELSE ParseFrom(trace, i + 1, steps, current_stage)

\* lines 235-338
parse_trace_to_steps(trace) ==
    ParseFrom(trace, 1, <<>>, [stage \in Stages |-> FALSE])

\* the items of a trace (master_agent.py, lines 139 and 150-169), with the
\* statuses the three tools return
ToolResponse(name, status) ==
    [role |-> "tool_response",
     tool_response |-> [name |-> name, response |-> [status |-> status]]]

ToolResponses ==
    { ToolResponse(VERIFICATION_TOOL, status) : status \in {"success", "error"} }
    \cup { ToolResponse(UNDERWRITING_TOOL, status) :
                status \in {"approved", "rejected", "needs_review"} }
    \cup { ToolResponse(SANCTION_LETTER_TOOL, status) :
                status \in {"success", "error"} }

Thoughts ==
    { [role |-> "agent_thought",
       tool_call |-> [name |-> UNDERWRITING_TOOL, args |-> args]] :
        args \in { <<>>,
                   [annual_income |-> 1200000, existing_emis |-> 10000,
                    bureau_score |-> 750, requested_amount |-> 500000,
                    requested_tenure_months |-> 36] } }

TraceBodies ==
    {<<>>}
    \cup { <<a>> : a \in ToolResponses \cup Thoughts }
    \cup { <<a, b>> : a \in ToolResponses \cup Thoughts, b \in ToolResponses }

DashboardTraces ==
    { <<[role |-> "user", message |-> <<"h", "i">>]>> \o body
        \o <<[role |-> "agent_response", message |-> <<"o", "k">>]>> :
      body \in TraceBodies }

\* lines 378-405: a chat turn the API answered with 200 and this trace
ChatTurn(trace) ==
    /\ Len(session_state.messages) < 2 * MaxTurns
    /\ LET parsed == parse_trace_to_steps(trace)
       IN  session_state' =
            IF "raised" \in DOMAIN parsed
            THEN [session_state EXCEPT
                    !.messages = Append(@, "user"),
                    !.last_trace = trace]
            ELSE [session_state EXCEPT
                    !.messages = @ \o <<"user", "assistant">>,
                    !.last_trace = trace,
                    !.agent_steps = parsed.steps,
                    !.progress_stages = parsed.current_stage]
    /\ UNCHANGED <<frame, evaluated, letterVars, verification, chatVars>>

\* lines 378-396 and 407-410: a chat turn the API did not answer with 200
ChatTurnFails ==
    /\ Len(session_state.messages) < 2 * MaxTurns
    /\ session_state' = [session_state EXCEPT !.messages = Append(@, "user")]
    /\ UNCHANGED <<frame, evaluated, letterVars, verification, chatVars>>

NextDashboard ==
    \/ \E trace \in DashboardTraces : ChatTurn(trace)
    \/ ChatTurnFails

SpecDashboard == Init /\ [][NextDashboard]_vars

\* the trace has a successful outcome of the tool of the stage
SuccessfulOutcome(trace, stage) ==
    \E i \in 1..Len(trace) :
        /\ trace[i].role = "tool_response"
        /\ StageKey(trace[i].tool_response.name) = stage
        /\ trace[i].tool_response.response.status =
                IF stage = "underwriting" THEN "approved" ELSE "success"

(***************************************************************************)
(* C19.  parse_trace_to_steps marks a stage completed exactly when the     *)
(* trace has a successful outcome of the stage's tool: status success of   *)
(* verification_tool and of sanction_letter_tool, status approved of       *)
(* underwriting_tool.                                                      *)
(***************************************************************************)
C19_StageCompletedIffSuccessful ==
    session_state.last_trace # None =>
        LET parsed == parse_trace_to_steps(session_state.last_trace)
        IN  "raised" \notin DOMAIN parsed =>
                \A stage \in Stages :
                    parsed.current_stage[stage]
                        <=> SuccessfulOutcome(session_state.last_trace, stage)

(***************************************************************************)
(* C20.  A stage shown as completed in st.session_state.progress_stages    *)
(* stays completed after every later chat turn of the session.             *)
(***************************************************************************)
C20_ProgressMonotonic ==
    [][\A stage \in Stages :
            session_state.progress_stages[stage]
                => session_state'.progress_stages[stage]]_vars

====
